---- MODULE Spec2Model ----
(***************************************************************************)
(* Batch scan orchestrator (BatchScanThread + AntivirusGUI slots) and the  *)
(* quarantine manager of src/antivirus.py.                                 *)
(*                                                                         *)
(* Threads of control: one worker per BatchScanThread (run), and the GUI   *)
(* thread, which handles user clicks and the signals the workers emit.     *)
(* A signal emitted by a worker is delivered to its GUI slot through the   *)
(* GUI thread's event queue (sender and receiver live in different         *)
(* threads), in emission order: `queue`.                                   *)
(***************************************************************************)
EXTENDS Integers, Sequences, FiniteSets, TLC

\* ------------------------------------------------------------------ bounds
MaxJobs == 2      \* BatchScanThread objects created in one run of the program
MaxFiles == 2     \* files on disk that a scan can enumerate
MaxClock == 1     \* seconds the wall clock advances
MaxQueue == 3     \* signal deliveries waiting in the GUI thread's event queue
MaxProcs == 1     \* other processes of the machine that psutil can list
MaxOps == 1       \* quarantine_file calls made from the result table in one session
MaxCalls == 2     \* quarantine_file calls of a session of the quarantine tab
MaxRoots == 2     \* drives of the machine
MaxDirs == 2      \* directories os.walk visits under one drive
MaxExtra == 2     \* fields of settings.json other than quarantine_dir
MaxVal == 3       \* values a field of settings.json can take

\* --------------------------------------------------------------- constants
max_retries == 5
FullScanCap == 10000
DriveCap == 50000
UsbCap == 50000
AllDrivesCap == 100000

Jobs == 1..MaxJobs
Paths == 1..MaxFiles
Procs == 1..MaxProcs

\* Verdict codes of engine.scan_file: the five documented ones and one the
\* status_map does not know.
UnknownCode == 9
Codes == {0, 1, 2, 3, -1, UnknownCode}

\* Two paths in different directories share a basename: paths 2k-1 and 2k.
BaseName(p) == (p + 1) \div 2

VARIABLES
    thread,            \* thread[j]: the BatchScanThread object j (and its run() frame)
    njobs,             \* number of BatchScanThread objects created so far
    scan_thread,       \* AntivirusGUI.scan_thread: 0 (None) or a job
    queue,             \* queued signal deliveries to the GUI thread, oldest first
    stats,             \* AntivirusGUI.stats (ScanStats)
    progress,          \* QProgressBar: [value, maximum]
    scan_btns,         \* select/folder/full/drive/all_drives/usb buttons enabled
    stop_scan_btn,     \* stop button enabled
    detailed_check,    \* QCheckBox
    auto_quarantine_check,
    rowCount,          \* result_table.rowCount()
    scan_history,      \* AntivirusGUI.scan_history
    history_job,       \* history_job[k]: the job whose finished signal appended entry k
    has_detailed_scan, \* module global set at DLL load
    disk,              \* paths that exist
    lock,              \* lock[p]: who holds path p open
    qdir,              \* quarantine directory: quarantine filename -> copied content
    meta,              \* quarantine directory: quarantine filename -> sidecar record
    now,               \* wall clock, in seconds, as last read
    procs,             \* procs[k]: process k of the machine and the file it holds open
    has_psutil,        \* whether `import psutil` succeeds
    copy_refused,      \* whether opening a copy in the quarantine directory is refused
    content,           \* content[p]: the bytes of the file at path p (for p in disk)
    dirs,              \* paths whose parent directory exists
    op,                \* the quarantine_file / restore_file call in progress
    nops,              \* number of quarantine_file calls made so far
    store_log,         \* history: the copies written and the files put back, per call
    qheld,             \* entries of the quarantine directory another program holds open
    hash_form,         \* the hash form of the signature tab and the engine.add_hash calls
    walk,              \* the file enumeration of a drive scan: its call frame and outcome
    settings           \* settings.json and what load_settings returned from it

vars == <<thread, njobs, scan_thread, queue, stats, progress, scan_btns,
          stop_scan_btn, detailed_check, auto_quarantine_check, rowCount,
          scan_history, history_job, has_detailed_scan, disk, lock, qdir, meta, now,
          procs, has_psutil, copy_refused, content, dirs, op, nops, store_log,
          qheld, hash_form, walk, settings>>

workerVars == <<thread, queue>>
guiVars == <<scan_thread, stats, progress, scan_btns, stop_scan_btn, rowCount,
             scan_history, history_job>>
optionVars == <<detailed_check, auto_quarantine_check>>
fsVars == <<disk, lock, qdir, meta>>
envVars == <<procs, has_psutil, copy_refused, content, dirs>>
callVars == <<op, nops, store_log>>
formVars == <<hash_form, walk, settings>>
sideVars == <<qheld, formVars>>

\* ------------------------------------------------------------- ScanStats
ScanStats == [total_scanned |-> 0, clean_files |-> 0, malicious_files |-> 0,
              suspicious_files |-> 0, errors |-> 0, quarantined |-> 0]

\* CountVerdict with an error bucket for -1 alone and no final else.
CountVerdictNoElse(s, status) ==
    LET t == [s EXCEPT !.total_scanned = @ + 1] IN
    IF status = 0 THEN [t EXCEPT !.clean_files = @ + 1]
    ELSE IF status \in {1, 2} THEN [t EXCEPT !.malicious_files = @ + 1]
    ELSE IF status = 3 THEN [t EXCEPT !.suspicious_files = @ + 1]
    ELSE IF status = -1 THEN [t EXCEPT !.errors = @ + 1]
    ELSE t

\* The if/elif chain of run(): total, then one bucket per verdict, anything
\* else an error.
CountVerdict(s, status) ==
    LET t == [s EXCEPT !.total_scanned = @ + 1] IN
    IF status = 0 THEN [t EXCEPT !.clean_files = @ + 1]
    ELSE IF status \in {1, 2} THEN [t EXCEPT !.malicious_files = @ + 1]
    ELSE IF status = 3 THEN [t EXCEPT !.suspicious_files = @ + 1]
    ELSE [t EXCEPT !.errors = @ + 1]

\* The dict passed to stats_update.emit.
Snapshot(s) == [total |-> s.total_scanned, clean |-> s.clean_files,
                malicious |-> s.malicious_files,
                suspicious |-> s.suspicious_files, errors |-> s.errors]

NoSnapshot == [total |-> 0, clean |-> 0, malicious |-> 0, suspicious |-> 0,
               errors |-> 0]

\* ------------------------------------------------------- BatchScanThread
NoThread == [pc |-> "none", file_list |-> <<>>, use_detailed |-> FALSE,
             stop_requested |-> FALSE, stats |-> ScanStats, i |-> 0,
             status |-> 0, raised |-> FALSE, scan_type |-> "none",
             log |-> <<>>]

\* BatchScanThread.__init__
NewThread(files, use_detailed, scan_type) ==
    [pc |-> "loop", file_list |-> files, use_detailed |-> use_detailed,
     stop_requested |-> FALSE, stats |-> ScanStats, i |-> 0, status |-> 0,
     raised |-> FALSE, scan_type |-> scan_type, log |-> <<>>]

\* QThread.isRunning(): run() has been entered and has not returned.
isRunning(j) == thread[j].pc \notin {"none", "done", "crashed"}

\* A signal emission: [sig, job, i, status, path, stats].
Event(sig, j, i, status, path, snap) ==
    [sig |-> sig, job |-> j, i |-> i, status |-> status, path |-> path,
     stats |-> snap]

\* thread[j].log records every emission of worker j (what was emitted for
\* which position), whether or not a slot is connected to the signal.
Logged(t, sig, total) == Append(t.log, [sig |-> sig, i |-> t.i, total |-> total])

\* ------------------------------------------------------------ quarantine
\* Who holds a file open: nobody, an ordinary process, or a process on the
\* deny-list ['system', 'csrss.exe', 'smss.exe', 'wininit.exe'].
LockKinds == {"none", "user", "critical"}

\* f"{timestamp}_{safe_name}{ext_part}": the timestamp has one-second
\* resolution and safe_name, ext_part depend on the basename alone.
QuarantineFilename(filepath, t) == [timestamp |-> t, safe_name |-> BaseName(filepath)]

\* force_close_file_handles: kills the holders of the path that are not on
\* the deny-list; the result is who still holds it.
force_close_file_handles(lk) == IF lk = "user" THEN "none" ELSE lk

\* The retry loop of quarantine_file from attempt `attempt` (0-based) on:
\* each attempt copies the file and tries os.remove; a PermissionError
\* before the last attempt waits, and from the 3rd attempt on forces the
\* handles closed. Result: [success, lock].
RECURSIVE RemoveLoop(_, _)
RemoveLoop(attempt, lk) ==
    IF lk = "none" THEN [success |-> TRUE, lock |-> lk]
    ELSE IF attempt < max_retries - 1
         THEN RemoveLoop(attempt + 1,
                         IF attempt >= 2 THEN force_close_file_handles(lk) ELSE lk)
         ELSE [success |-> FALSE, lock |-> lk]

\* quarantine_file(filepath, threat_name) applied to the file system and the
\* quarantined counter q: a missing file is reported and nothing changes;
\* otherwise the copy and the sidecar are written under the quarantine
\* filename and the original is removed when os.remove succeeded.
quarantine_file(filepath, threat_name, d, l, qd, mt, q, t) ==
    IF filepath \notin d
    THEN [disk |-> d, lock |-> l, qdir |-> qd, meta |-> mt, quarantined |-> q]
    ELSE LET name == QuarantineFilename(filepath, t)
             r == RemoveLoop(0, l[filepath])
             rec == [original_path |-> filepath,
                     original_filename |-> BaseName(filepath),
                     threat_name |-> threat_name,
                     quarantine_time |-> t,
                     original_deleted |-> r.success]
         IN [disk |-> IF r.success THEN d \ {filepath} ELSE d,
             lock |-> [l EXCEPT ![filepath] = r.lock],
             qdir |-> [n \in DOMAIN qd \cup {name} |->
                          IF n = name THEN filepath ELSE qd[n]],
             meta |-> [n \in DOMAIN mt \cup {name} |->
                          IF n = name THEN rec ELSE mt[n]],
             quarantined |-> q + 1]

\* ------------------------------------------------- processes and handles
\* The path of an open file as psutil reports it: the path of file `file`,
\* or (cased) a path that differs from it in letter case only, which on a
\* case-sensitive file system is a different file.
Handles == [file : Paths, cased : BOOLEAN]
PathOf(p) == [file |-> p, cased |-> FALSE]

\* str.lower() of a path: the case variants of a path fall together.
lower(h) == h.file

\* A process: "user" is an ordinary program, "critical" has a name of the
\* deny-list (system, csrss.exe, smss.exe, wininit.exe), "denied" makes
\* psutil raise AccessDenied; excl: it opened its file without sharing.
ProcKinds == {"user", "critical", "denied"}
NoProc == [alive |-> FALSE, kind |-> "user", open |-> PathOf(1), excl |-> FALSE]
ProcStates == {NoProc} \cup [alive : {TRUE}, kind : ProcKinds, open : Handles,
                             excl : BOOLEAN]

\* The process tables of the sessions explored: a process holds the first
\* file, or its case variant (for which sharing makes no difference), or
\* nothing; the other files are held by nobody.
HeldFile == 1
ProcInputs == {q \in ProcStates :
                 q.alive => q.open.file = HeldFile /\ (q.open.cased => ~q.excl)}

\* Processes are interchangeable: a table is taken in one order of its
\* entries only.
ProcCode(q) ==
    IF ~q.alive THEN 0
    ELSE 1 + (CASE q.kind = "user" -> 0 [] q.kind = "critical" -> 4 [] OTHER -> 8)
           + (IF q.open.cased THEN 2 ELSE 0) + (IF q.excl THEN 1 ELSE 0)
Ordered(ps) == \A k \in Procs : k < MaxProcs => ProcCode(ps[k]) <= ProcCode(ps[k + 1])

\* The processes that hold the file at path p open.
Holders(p, ps) == {k \in Procs : ps[k].alive /\ ps[k].open = PathOf(p)}

\* open(filepath, 'rb') is refused while a holder denies sharing;
\* os.remove(filepath) is refused while anything holds the file.
ReadRefused(p, ps) == \E k \in Holders(p, ps) : ps[k].excl
RemoveRefused(p, ps) == Holders(p, ps) # {}

\* The processes force_close_file_handles kills for file_path: those whose
\* open file compares equal after lower(), whose name is not on the
\* deny-list and for which psutil raises nothing.
KillSet(file_path, ps) ==
    {k \in Procs : /\ ps[k].alive
                   /\ ps[k].kind # "denied"
                   /\ lower(ps[k].open) = lower(PathOf(file_path))
                   /\ ps[k].kind # "critical"}

\* The kills of one call in process_iter order, each followed by its
\* sleep of 0.3 s (durations are in tenths of a second).
RECURSIVE KillTrace(_, _, _)
KillTrace(k, file_path, ps) ==
    IF k > MaxProcs THEN <<>>
    ELSE (IF k \in KillSet(file_path, ps)
          THEN <<[ev |-> "kill", n |-> k], [ev |-> "sleep", n |-> 3]>>
          ELSE <<>>) \o KillTrace(k + 1, file_path, ps)

\* force_close_file_handles(file_path) on the process table ps: without
\* psutil nothing happens and the result is False.
ForceClose(file_path, ps, psutil) ==
    IF ~psutil
    THEN [procs |-> ps, closed |-> FALSE, trace |-> <<>>, killed |-> {}]
    ELSE LET K == KillSet(file_path, ps) IN
         [procs |-> [k \in Procs |-> IF k \in K THEN NoProc ELSE ps[k]],
          closed |-> K # {},
          trace |-> KillTrace(1, file_path, ps),
          killed |-> {[proc |-> k, open |-> ps[k].open, kind |-> ps[k].kind,
                       target |-> file_path] : k \in K}]

\* ------------------------------------------------------------------ Init
EmptyStore == [n \in {} |-> 0]

\* No quarantine_file or restore_file call has been made.
NoOp == [pc |-> "idle", call |-> "none", filepath |-> 0, threat_name |-> 0,
         name |-> [timestamp |-> 0, safe_name |-> 0], attempt |-> 0,
         success |-> FALSE, file_data |-> 0, trace |-> <<>>, report |-> "none",
         killed |-> {}, held |-> FALSE,
         via |-> "none", row |-> [timestamp |-> 0, safe_name |-> 0], tried |-> {}]

\* The hash form untouched, no drive scan asked for, settings.json absent
\* and loaded as such.
NoHashForm == [has_add_hash |-> FALSE,
               hash_value_input |-> [len |-> 0, hex |-> TRUE, upper |-> FALSE, pad |-> FALSE],
               hash_name_input |-> "empty", is_sha256 |-> FALSE,
               calls |-> {}, report |-> "none"]
NoWalk == [pc |-> "idle", kind |-> "none", roots |-> <<>>, drive |-> 0, counts |-> <<>>,
           file_list |-> 0, scanned_drives |-> <<>>, report |-> "none"]
\* The keys of a settings object: quarantine_dir, the only key with a
\* default, and 1..MaxExtra; the default value is the directory next to the
\* program, the values 1..MaxVal are persisted ones.
quarantine_dir == 0
SettingKeys == {quarantine_dir} \cup 1..MaxExtra
DefaultDir == 0
Doc(type, fields, elems) == [type |-> type, fields |-> fields, elems |-> elems]
NoFile(type) == Doc(type, [k \in {} |-> 0], {})
DefaultSettings == Doc("object", [k \in {quarantine_dir} |-> DefaultDir], {})
NoSettings == [file |-> NoFile("missing"), SETTINGS |-> DefaultSettings,
               startup |-> "ok", pc |-> "loaded"]
QuietForms ==
    /\ hash_form = NoHashForm
    /\ walk = NoWalk
    /\ settings = NoSettings

\* A machine on which nothing interferes with the quarantine directory.
QuietFiles ==
    /\ qheld = {}
    /\ procs = [k \in Procs |-> NoProc]
    /\ has_psutil = TRUE
    /\ copy_refused = FALSE
    /\ content = [p \in Paths |-> p]
    /\ dirs = Paths
    /\ op = NoOp
    /\ nops = 0
    /\ store_log = {}

QuietEnv == QuietFiles /\ QuietForms

\* The state after AntivirusGUI.__init__, for a disk holding the files d,
\* with the two check boxes as given.
InitScan(d, detailed, auto) ==
    /\ thread = [j \in Jobs |-> NoThread]
    /\ njobs = 0
    /\ scan_thread = 0
    /\ queue = <<>>
    /\ stats = ScanStats
    /\ progress = [value |-> 0, maximum |-> 0]
    /\ scan_btns = TRUE
    /\ stop_scan_btn = FALSE
    /\ detailed_check = detailed
    /\ auto_quarantine_check = auto
    /\ rowCount = 0
    /\ scan_history = <<>>
    /\ history_job = <<>>
    /\ has_detailed_scan \in BOOLEAN
    /\ disk = d
    /\ lock = [p \in Paths |-> "none"]
    /\ qdir = EmptyStore
    /\ meta = EmptyStore
    /\ now = 0

InitWith(d, detailed, auto) == InitScan(d, detailed, auto) /\ QuietEnv

\* detailed_check.setChecked(True); auto_quarantine_check starts unchecked.
Init == InitWith(Paths, TRUE, FALSE)

\* --------------------------------------------------------- GUI: starting
\* The files that exist, in enumeration order.
RECURSIVE Enumerate(_, _)
Enumerate(p, d) ==
    IF p > MaxFiles THEN <<>>
    ELSE (IF p \in d THEN <<p>> ELSE <<>>) \o Enumerate(p + 1, d)

\* _start_batch_scan(files, scan_type)
start_batch_scan(files, scan_type) ==
    IF files = <<>>
    THEN UNCHANGED <<thread, njobs, scan_thread, progress, scan_btns,
                     stop_scan_btn, rowCount>>
    ELSE /\ njobs < MaxJobs
         /\ rowCount' = 0
         /\ progress' = [value |-> 0, maximum |-> Len(files)]
         /\ scan_btns' = FALSE
         /\ stop_scan_btn' = TRUE
         /\ njobs' = njobs + 1
         /\ thread' = [thread EXCEPT
                          ![njobs + 1] = NewThread(files, detailed_check, scan_type)]
         /\ scan_thread' = njobs + 1

\* quick_scan: the toolbar button, which nothing ever disables.
quick_scan ==
    /\ Enumerate(1, disk) # <<>>
    /\ start_batch_scan(Enumerate(1, disk), "quick")
    /\ UNCHANGED <<queue, stats, scan_history, history_job, optionVars, has_detailed_scan,
                   fsVars, now, envVars, callVars,
                   sideVars>>

\* choose_and_scan: the select button; the user picks existing files.
choose_and_scan ==
    /\ scan_btns
    /\ \E sel \in SUBSET disk :
          /\ sel # {}
          /\ start_batch_scan(Enumerate(1, sel), "file")
    /\ UNCHANGED <<queue, stats, scan_history, history_job, optionVars, has_detailed_scan,
                   fsVars, now, envVars, callVars,
                   sideVars>>

\* stop_scan: the stop button, confirmed by the user.
stop_scan ==
    /\ stop_scan_btn
    /\ scan_thread # 0
    /\ isRunning(scan_thread)
    /\ thread' = [thread EXCEPT ![scan_thread].stop_requested = TRUE]
    /\ stop_scan_btn' = FALSE
    /\ UNCHANGED <<njobs, scan_thread, queue, stats, progress, scan_btns,
                   rowCount, scan_history, history_job, optionVars,
                   has_detailed_scan, fsVars, now, envVars, callVars,
                   sideVars>>

\* The user toggles a check box.
toggle_detailed ==
    /\ detailed_check' = ~detailed_check
    /\ UNCHANGED <<workerVars, njobs, guiVars, auto_quarantine_check,
                   has_detailed_scan, fsVars, now, envVars, callVars,
                   sideVars>>

toggle_auto_quarantine ==
    /\ auto_quarantine_check' = ~auto_quarantine_check
    /\ UNCHANGED <<workerVars, njobs, guiVars, detailed_check,
                   has_detailed_scan, fsVars, now, envVars, callVars,
                   sideVars>>

\* ------------------------------------------------- BatchScanThread.run
\* A worker's steps are the points where run() touches what it shares with
\* the GUI thread: the read of the stop flag at the top of the loop, and the
\* return of the adapter call, after which the signals of the item are
\* emitted in program order with no further shared read.
otherVars == <<njobs, guiVars, optionVars, has_detailed_scan, fsVars, now, envVars,
              callVars, sideVars>>

Room(n) == Len(queue) + n <= MaxQueue

\* finished.emit() after the loop; run() returns.
Finish(j, log) ==
    /\ Room(1)
    /\ queue' = Append(queue, Event("finished", j, thread[j].i, 0, 0, NoSnapshot))
    /\ thread' = [thread EXCEPT
                     ![j].log = Append(log, [sig |-> "finished", i |-> thread[j].i,
                                             total |-> 0]),
                     ![j].pc = "done"]

\* Loop without the test of the stop flag.
LoopIgnoreStop(j) ==
    LET t == thread[j] IN
    /\ t.pc = "loop"
    /\ IF t.i = Len(t.file_list)
       THEN Finish(j, t.log)
       ELSE /\ thread' = [thread EXCEPT ![j].i = @ + 1, ![j].pc = "scan",
                                        ![j].raised = FALSE]
            /\ UNCHANGED queue
    /\ UNCHANGED otherVars

\* Loop with finished emitted in the break branch and again after the loop.
LoopFinishedOnBreak(j) ==
    LET t == thread[j]
        f == [sig |-> "finished", i |-> t.i, total |-> 0]
        e == Event("finished", j, t.i, 0, 0, NoSnapshot)
    IN
    /\ t.pc = "loop"
    /\ IF t.i = Len(t.file_list)
       THEN Finish(j, t.log)
       ELSE IF t.stop_requested
       THEN /\ Room(2)
            /\ queue' = queue \o <<e, e>>
            /\ thread' = [thread EXCEPT
                              ![j].log = Logged(t, "stopped_msg", 0) \o <<f, f>>,
                              ![j].pc = "done"]
       ELSE /\ thread' = [thread EXCEPT ![j].i = @ + 1, ![j].pc = "scan",
                                        ![j].raised = FALSE]
            /\ UNCHANGED queue
    /\ UNCHANGED otherVars

\* Top of the for loop: the list is exhausted, or the stop flag is seen
\* (message, break), or the next target is taken and the adapter is called.
Loop(j) ==
    LET t == thread[j] IN
    /\ t.pc = "loop"
    /\ IF t.i = Len(t.file_list)
       THEN Finish(j, t.log)
       ELSE IF t.stop_requested
       THEN Finish(j, Logged(t, "stopped_msg", 0))
       ELSE /\ thread' = [thread EXCEPT ![j].i = @ + 1, ![j].pc = "scan",
                                        ![j].raised = FALSE]
            /\ UNCHANGED queue
    /\ UNCHANGED otherVars

\* The else branch of the loop body: scan_file_basic returned `code`;
\* result_msg (no slot is connected to it), counters, stats_update, progress.
BasicItem(j, code) ==
    LET t == thread[j]
        st == CountVerdict(t.stats, code)
    IN /\ Room(2)
       /\ queue' = queue \o
              << Event("stats_update", j, t.i, 0, 0, Snapshot(st)),
                 Event("progress", j, t.i, 0, 0, NoSnapshot) >>
       /\ thread' = [thread EXCEPT
             ![j].status = code,
             ![j].stats = st,
             ![j].log = t.log \o
                 << [sig |-> "result_msg", i |-> t.i, total |-> 0],
                    [sig |-> "stats_update", i |-> t.i, total |-> st.total_scanned],
                    [sig |-> "progress", i |-> t.i, total |-> 0] >>,
             ![j].pc = "loop"]

\* DetailedItem with progress emitted before the snapshot.
DetailedItemProgressFirst(j, status, raised) ==
    LET t == thread[j]
        st == CountVerdict(t.stats, status)
    IN /\ Room(3)
       /\ queue' = queue \o
              << Event("result_detailed", j, t.i, status, t.file_list[t.i],
                       NoSnapshot),
                 Event("progress", j, t.i, 0, 0, NoSnapshot),
                 Event("stats_update", j, t.i, 0, 0, Snapshot(st)) >>
       /\ thread' = [thread EXCEPT
             ![j].status = status,
             ![j].raised = raised,
             ![j].stats = st,
             ![j].log = t.log \o
                 << [sig |-> "result_detailed", i |-> t.i, total |-> 0],
                    [sig |-> "result_msg", i |-> t.i, total |-> 0],
                    [sig |-> "progress", i |-> t.i, total |-> 0],
                    [sig |-> "stats_update", i |-> t.i, total |-> st.total_scanned] >>,
             ![j].pc = "loop"]

\* The if branch of the loop body: scan_file_detailed returned a dict with
\* status `status`; result_detailed, counters, result_msg, stats_update,
\* progress. `raised`: the dict is the one built in the except clause.
DetailedItem(j, status, raised) ==
    LET t == thread[j]
        st == CountVerdict(t.stats, status)
    IN /\ Room(3)
       /\ queue' = queue \o
              << Event("result_detailed", j, t.i, status, t.file_list[t.i],
                       NoSnapshot),
                 Event("stats_update", j, t.i, 0, 0, Snapshot(st)),
                 Event("progress", j, t.i, 0, 0, NoSnapshot) >>
       /\ thread' = [thread EXCEPT
             ![j].status = status,
             ![j].raised = raised,
             ![j].stats = st,
             ![j].log = t.log \o
                 << [sig |-> "result_detailed", i |-> t.i, total |-> 0],
                    [sig |-> "result_msg", i |-> t.i, total |-> 0],
                    [sig |-> "stats_update", i |-> t.i, total |-> st.total_scanned],
                    [sig |-> "progress", i |-> t.i, total |-> 0] >>,
             ![j].pc = "loop"]

\* scan_file_basic(filepath) returns the engine's code.
ScanBasic(j) ==
    /\ thread[j].pc = "scan"
    /\ ~thread[j].use_detailed
    /\ \E code \in Codes : BasicItem(j, code)
    /\ UNCHANGED otherVars

\* scan_file_detailed(filepath) returns the engine's dict, or the one built
\* from scan_file_basic when the engine has no detailed scan.
ScanDetailed(j) ==
    /\ thread[j].pc = "scan"
    /\ thread[j].use_detailed
    /\ \E status \in Codes : DetailedItem(j, status, FALSE)
    /\ UNCHANGED otherVars

\* engine.scan_file_detailed or the decoding of its result raises: the
\* except clause of scan_file_detailed calls scan_file_basic and returns a
\* dict whose status is the basic code.
ScanDetailedRaises(j) ==
    /\ thread[j].pc = "scan"
    /\ thread[j].use_detailed
    /\ has_detailed_scan
    /\ \E code \in Codes : DetailedItem(j, code, TRUE)
    /\ UNCHANGED otherVars

\* engine.scan_file raises inside scan_file_basic, which no try encloses
\* (basic mode, detailed mode without a detailed engine, or the except
\* clause of scan_file_detailed): the exception leaves run() and finished
\* is never emitted.
ScanBasicRaises(j) ==
    /\ thread[j].pc = "scan"
    /\ thread' = [thread EXCEPT ![j].raised = TRUE, ![j].pc = "crashed"]
    /\ UNCHANGED <<queue, otherVars>>

Worker(j) ==
    \/ Loop(j)
    \/ ScanBasic(j)
    \/ ScanDetailed(j)
    \/ ScanDetailedRaises(j)
    \/ ScanBasicRaises(j)

\* ------------------------------------------------------- GUI thread slots
\* The GUI thread takes the oldest queued delivery and runs its slot.
Delivery(sig) == queue # <<>> /\ Head(queue).sig = sig

\* progress -> QProgressBar.setValue: a value outside the range is ignored.
setValue(v) ==
    IF v <= progress.maximum THEN [progress EXCEPT !.value = v] ELSE progress

on_progress ==
    /\ Delivery("progress")
    /\ progress' = setValue(Head(queue).i)
    /\ queue' = Tail(queue)
    /\ UNCHANGED <<thread, njobs, scan_thread, stats, scan_btns, stop_scan_btn,
                   rowCount, scan_history, history_job, optionVars,
                   has_detailed_scan, fsVars, now, envVars, callVars,
                   sideVars>>

\* result_detailed -> add_result_to_table(result): a new row, and for a
\* malicious or suspicious status the quarantine when the box is checked.
add_result_to_table ==
    /\ Delivery("result_detailed")
    /\ \E t \in now..MaxClock :
       LET result == Head(queue)
           q == IF result.status \in {1, 2, 3} /\ auto_quarantine_check
                THEN quarantine_file(result.path, result.status, disk, lock,
                                     qdir, meta, stats.quarantined, t)
                ELSE [disk |-> disk, lock |-> lock, qdir |-> qdir,
                      meta |-> meta, quarantined |-> stats.quarantined]
       IN /\ now' = t
          /\ rowCount' = rowCount + 1
          /\ disk' = q.disk
          /\ lock' = q.lock
          /\ qdir' = q.qdir
          /\ meta' = q.meta
          /\ stats' = [stats EXCEPT !.quarantined = q.quarantined]
    /\ queue' = Tail(queue)
    /\ UNCHANGED <<thread, njobs, scan_thread, progress, scan_btns,
                   stop_scan_btn, scan_history, history_job, optionVars,
                   has_detailed_scan, envVars, callVars,
                   sideVars>>

\* stats_update -> update_stats(stats)
update_stats ==
    /\ Delivery("stats_update")
    /\ LET snap == Head(queue).stats IN
       stats' = [stats EXCEPT !.total_scanned = snap.total,
                              !.clean_files = snap.clean,
                              !.malicious_files = snap.malicious,
                              !.suspicious_files = snap.suspicious,
                              !.errors = snap.errors]
    /\ queue' = Tail(queue)
    /\ UNCHANGED <<thread, njobs, scan_thread, progress, scan_btns,
                   stop_scan_btn, rowCount, scan_history, history_job,
                   optionVars, has_detailed_scan, fsVars, now, envVars, callVars,
                   sideVars>>

\* The history_entry dict of scan_finished; its status is always the
\* literal for "complete".
history_entry(scan_type, total_files, t) ==
    [time |-> t, type |-> scan_type, total |-> total_files,
     threats |-> stats.malicious_files + stats.suspicious_files,
     status |-> "complete"]

\* finished -> scan_finished(scan_type, len(files)), the arguments being the
\* ones of the _start_batch_scan call that created the sender.
scan_finished ==
    /\ Delivery("finished")
    /\ \E t \in now..MaxClock :
       LET j == Head(queue).job IN
       /\ now' = t
       /\ progress' = [progress EXCEPT !.value = progress.maximum]
       /\ scan_btns' = TRUE
       /\ stop_scan_btn' = FALSE
       /\ scan_history' = Append(scan_history,
              history_entry(thread[j].scan_type, Len(thread[j].file_list), t))
       /\ history_job' = Append(history_job, j)
    /\ queue' = Tail(queue)
    /\ UNCHANGED <<thread, njobs, scan_thread, stats, rowCount, optionVars,
                   has_detailed_scan, fsVars, envVars, callVars,
                   sideVars>>

\* ------------------------------------------------------------------ Next
\* No scan has been started yet in this session.
FirstJob == njobs = 0

\* The first scan of a session, from its start to the handling of its last
\* signal, with every user action available meanwhile except a second start.
\* detailed_check is read only when a worker is created (line 1306), so its
\* box is toggled before the start; a later toggle could not be observed.
Next ==
    \/ FirstJob /\ quick_scan
    \/ FirstJob /\ choose_and_scan
    \/ stop_scan
    \/ FirstJob /\ toggle_detailed
    \/ toggle_auto_quarantine
    \/ \E j \in Jobs : Worker(j)
    \/ on_progress
    \/ add_result_to_table
    \/ update_stats
    \/ scan_finished

Spec == Init /\ [][Next]_vars

\* Sessions of up to MaxJobs scans over a disk that holds one file, the
\* check boxes being set before the first scan and left alone afterwards.
InitJobs == \E detailed \in BOOLEAN, auto \in BOOLEAN : InitWith({1}, detailed, auto)

NextJobs ==
    \/ quick_scan
    \/ choose_and_scan
    \/ stop_scan
    \/ \E j \in Jobs : Worker(j)
    \/ on_progress
    \/ add_result_to_table
    \/ update_stats
    \/ scan_finished

SpecJobs == InitJobs /\ [][NextJobs]_vars

\* The first scan of a session that begins with the auto-quarantine box
\* unchecked (its initial state), the box being toggled only while the
\* scan is under way or after it.
NextToggle ==
    \/ FirstJob /\ quick_scan
    \/ FirstJob /\ choose_and_scan
    \/ stop_scan
    \/ FirstJob /\ toggle_detailed
    \/ ~FirstJob /\ toggle_auto_quarantine
    \/ \E j \in Jobs : Worker(j)
    \/ on_progress
    \/ add_result_to_table
    \/ update_stats
    \/ scan_finished

SpecToggle == Init /\ [][NextToggle]_vars

\* ------------------------------------------------ quarantine_file, stepwise
\* What a quarantine_file or restore_file call leaves alone.
scanVars == <<thread, njobs, scan_thread, queue, progress, scan_btns,
              stop_scan_btn, rowCount, scan_history, history_job, optionVars,
              has_detailed_scan, lock, sideVars>>

Event2(ev, n) == [ev |-> ev, n |-> n]

\* The entries of the quarantine directory (os.listdir): the quarantined
\* files and their .meta sidecars. An entry another program holds open
\* cannot be removed.
Entry(n, kind) == [name |-> n, kind |-> kind]
Entries(qd, mt) == {Entry(n, "file") : n \in DOMAIN qd} \cup {Entry(n, "meta") : n \in DOMAIN mt}
Held(n, kind) == Entry(n, kind) \in qheld
\* An entry of the history: during call number nops the bytes `data` were
\* written as the copy of `path`, or written back to `path`.
Logged2(ev, path, data) == [ev |-> ev, path |-> path, data |-> data, n |-> nops]
Minus(f, n) == [x \in DOMAIN f \ {n} |-> f[x]]
Put(f, n, v) == [x \in DOMAIN f \cup {n} |-> IF x = n THEN v ELSE f[x]]

\* OnPermissionError that re-raises on the last attempt, as the handler of
\* the other exceptions does.
OnPermissionErrorRaises(o, ps, psutil) ==
    LET k == o.attempt + 1
        failed == Append(o.trace, Event2("PermissionError", k))
    IN IF o.attempt < max_retries - 1
       THEN LET forced == o.attempt >= 2
                f == IF forced THEN ForceClose(o.filepath, ps, psutil)
                     ELSE [procs |-> ps, closed |-> FALSE, trace |-> <<>>, killed |-> {}]
                tr == failed \o <<Event2("sleep", 5 * k)>>
                        \o (IF forced THEN <<Event2("force", k)>> \o f.trace ELSE <<>>)
                        \o (IF f.closed THEN <<Event2("sleep", 10)>> ELSE <<>>)
            IN [op |-> [o EXCEPT !.pc = "read", !.attempt = k, !.trace = tr,
                                 !.killed = @ \cup f.killed],
                procs |-> f.procs]
       ELSE [op |-> [o EXCEPT !.pc = "return", !.trace = failed, !.report = "failed"],
             procs |-> ps]

\* OnPermissionError that forces the handles closed from the 2nd attempt on.
OnPermissionErrorForceEarly(o, ps, psutil) ==
    LET k == o.attempt + 1
        failed == Append(o.trace, Event2("PermissionError", k))
    IN IF o.attempt < max_retries - 1
       THEN LET forced == o.attempt >= 1
                f == IF forced THEN ForceClose(o.filepath, ps, psutil)
                     ELSE [procs |-> ps, closed |-> FALSE, trace |-> <<>>, killed |-> {}]
                tr == failed \o <<Event2("sleep", 5 * k)>>
                        \o (IF forced THEN <<Event2("force", k)>> \o f.trace ELSE <<>>)
                        \o (IF f.closed THEN <<Event2("sleep", 10)>> ELSE <<>>)
            IN [op |-> [o EXCEPT !.pc = "read", !.attempt = k, !.trace = tr,
                                 !.killed = @ \cup f.killed],
                procs |-> f.procs]
       ELSE [op |-> [o EXCEPT !.pc = "meta", !.success = FALSE, !.trace = failed],
             procs |-> ps]

\* except PermissionError: before the last attempt sleep 0.5 s x attempt
\* number and, from the 3rd attempt on, force the handles closed (1 s more
\* when a process was killed), then retry; on the last attempt give up with
\* success = False. Result: the call and the process table.
OnPermissionError(o, ps, psutil) ==
    LET k == o.attempt + 1
        failed == Append(o.trace, Event2("PermissionError", k))
    IN IF o.attempt < max_retries - 1
       THEN LET forced == o.attempt >= 2
                f == IF forced THEN ForceClose(o.filepath, ps, psutil)
                     ELSE [procs |-> ps, closed |-> FALSE, trace |-> <<>>, killed |-> {}]
                tr == failed \o <<Event2("sleep", 5 * k)>>
                        \o (IF forced THEN <<Event2("force", k)>> \o f.trace ELSE <<>>)
                        \o (IF f.closed THEN <<Event2("sleep", 10)>> ELSE <<>>)
            IN [op |-> [o EXCEPT !.pc = "read", !.attempt = k, !.trace = tr,
                                 !.killed = @ \cup f.killed],
                procs |-> f.procs]
       ELSE [op |-> [o EXCEPT !.pc = "meta", !.success = FALSE, !.trace = failed],
             procs |-> ps]

\* except Exception: before the last attempt sleep 0.5 s and retry; on the
\* last attempt re-raise, which the outer handler reports ("격리 실패").
OnException(o) ==
    LET k == o.attempt + 1
        failed == Append(o.trace, Event2("Exception", k))
    IN IF o.attempt < max_retries - 1
       THEN [o EXCEPT !.pc = "read", !.attempt = k,
                      !.trace = Append(failed, Event2("sleep", 5))]
       ELSE [o EXCEPT !.pc = "return", !.trace = failed, !.report = "failed"]

\* The quarantine button of a result row: quarantine_file(filepath,
\* threat_name) is called with the path and threat the row was built with.
quarantine_call(filepath, threat_name, limit) ==
    /\ op.pc = "idle"
    /\ nops < limit
    /\ nops' = nops + 1
    /\ store_log' = store_log
    /\ op' = [NoOp EXCEPT !.call = "quarantine", !.pc = "check",
                          !.filepath = filepath, !.threat_name = threat_name]
    /\ UNCHANGED <<scanVars, stats, fsVars, now, envVars>>

quarantine_start(filepath, threat_name) == quarantine_call(filepath, threat_name, MaxOps)

\* q_check without the os.path.exists test.
q_checkNoExists ==
    /\ op.pc = "check"
    /\ \E t \in now..MaxClock :
          /\ now' = t
          /\ op' = [op EXCEPT !.pc = "read",
                              !.name = QuarantineFilename(op.filepath, t),
                              !.held = RemoveRefused(op.filepath, procs)]
    /\ UNCHANGED <<scanVars, stats, fsVars, envVars, nops, store_log>>

\* quarantine_file up to the retry loop: a missing file is reported and the
\* call returns; otherwise the quarantine filename is derived from the
\* clock and the basename.
q_check ==
    /\ op.pc = "check"
    /\ \E t \in now..MaxClock :
          /\ now' = t
          /\ op' = IF op.filepath \notin disk
                   THEN [op EXCEPT !.pc = "return", !.report = "not_found"]
                   ELSE [op EXCEPT !.pc = "read",
                                   !.name = QuarantineFilename(op.filepath, t),
                                   !.held = RemoveRefused(op.filepath, procs)]
    /\ UNCHANGED <<scanVars, stats, fsVars, envVars, nops, store_log>>

\* with open(filepath, 'rb') as src: file_data = src.read()
q_read ==
    /\ op.pc = "read"
    /\ IF op.filepath \notin disk
       THEN op' = OnException(op) /\ procs' = procs
       ELSE IF ReadRefused(op.filepath, procs)
            THEN LET r == OnPermissionError(op, procs, has_psutil)
                 IN op' = r.op /\ procs' = r.procs
            ELSE /\ op' = [op EXCEPT !.pc = "write",
                                     !.file_data = content[op.filepath]]
                 /\ procs' = procs
    /\ UNCHANGED <<scanVars, stats, disk, qdir, meta, now, has_psutil,
                   copy_refused, content, dirs, nops, store_log>>

\* with open(quarantine_path, 'wb') as dst: dst.write(file_data)
q_write ==
    /\ op.pc = "write"
    /\ IF copy_refused
       THEN LET r == OnPermissionError(op, procs, has_psutil)
            IN op' = r.op /\ procs' = r.procs /\ qdir' = qdir /\ store_log' = store_log
       ELSE /\ qdir' = Put(qdir, op.name, op.file_data)
            /\ store_log' = store_log \cup {Logged2("copy", op.filepath, op.file_data)}
            /\ op' = [op EXCEPT !.pc = "remove"]
            /\ procs' = procs
    /\ UNCHANGED <<scanVars, stats, disk, meta, now, has_psutil, copy_refused,
                   content, dirs, nops>>

\* q_remove that sets success without removing the original.
q_removeKeepsOriginal ==
    /\ op.pc = "remove"
    /\ LET o == [op EXCEPT !.trace = Append(@, Event2("sleep", 2))] IN
       IF op.filepath \notin disk
       THEN op' = OnException(o) /\ procs' = procs /\ disk' = disk
       ELSE IF RemoveRefused(op.filepath, procs)
            THEN LET r == OnPermissionError(o, procs, has_psutil)
                 IN op' = r.op /\ procs' = r.procs /\ disk' = disk
            ELSE /\ disk' = disk
                 /\ op' = [o EXCEPT !.pc = "meta", !.success = TRUE,
                                    !.trace = Append(@, Event2("removed", op.attempt + 1))]
                 /\ procs' = procs
    /\ UNCHANGED <<scanVars, stats, qdir, meta, now, has_psutil, copy_refused,
                   content, dirs, nops, store_log>>

\* time.sleep(0.2); os.remove(filepath); success = True; break
q_remove ==
    /\ op.pc = "remove"
    /\ LET o == [op EXCEPT !.trace = Append(@, Event2("sleep", 2))] IN
       IF op.filepath \notin disk
       THEN op' = OnException(o) /\ procs' = procs /\ disk' = disk
       ELSE IF RemoveRefused(op.filepath, procs)
            THEN LET r == OnPermissionError(o, procs, has_psutil)
                 IN op' = r.op /\ procs' = r.procs /\ disk' = disk
            ELSE /\ disk' = disk \ {op.filepath}
                 /\ op' = [o EXCEPT !.pc = "meta", !.success = TRUE,
                                    !.trace = Append(@, Event2("removed", op.attempt + 1))]
                 /\ procs' = procs
    /\ UNCHANGED <<scanVars, stats, qdir, meta, now, has_psutil, copy_refused,
                   content, dirs, nops, store_log>>

\* After the loop: the sidecar is written, the counter incremented and the
\* outcome shown ("성공" or "부분 성공").
q_meta ==
    /\ op.pc = "meta"
    /\ \E t \in now..MaxClock :
          /\ now' = t
          /\ meta' = Put(meta, op.name,
                         [original_path |-> op.filepath,
                          original_filename |-> BaseName(op.filepath),
                          threat_name |-> op.threat_name,
                          quarantine_time |-> t,
                          original_deleted |-> op.success])
    /\ stats' = [stats EXCEPT !.quarantined = @ + 1]
    /\ op' = [op EXCEPT !.pc = "return",
                        !.report = IF op.success THEN "success" ELSE "partial"]
    /\ UNCHANGED <<scanVars, disk, qdir, envVars, nops, store_log>>

\* ---------------------------------------------------- restore_file, stepwise
\* restore_file(filepath): a missing file is reported; without a sidecar the
\* user may delete the copy; with one the original path is read from it.
restore_call(filepath, row, via) ==
    LET o == [NoOp EXCEPT !.call = "restore", !.name = filepath, !.row = row,
                          !.via = via]
    IN
    /\ op.pc = "idle"
    /\ UNCHANGED <<nops, store_log>>
    /\ IF filepath \notin DOMAIN qdir
       THEN /\ op' = [o EXCEPT !.pc = "return", !.report = "not_found"]
            /\ qdir' = qdir
       ELSE IF filepath \notin DOMAIN meta
       THEN \E reply \in BOOLEAN :
               IF reply /\ Held(filepath, "file")
               THEN /\ qdir' = qdir
                    /\ op' = [o EXCEPT !.pc = "return", !.report = "restore_failed"]
               ELSE /\ qdir' = IF reply THEN Minus(qdir, filepath) ELSE qdir
                    /\ op' = [o EXCEPT !.pc = "return",
                                       !.report = IF reply THEN "deleted" ELSE "none"]
       ELSE /\ op' = [o EXCEPT !.pc = "mkdir",
                               !.filepath = meta[filepath].original_path,
                               !.file_data = qdir[filepath]]
            /\ qdir' = qdir
    /\ UNCHANGED <<scanVars, stats, disk, meta, now, envVars>>

\* The restore button of a row: refresh_quarantine bound it to the path of
\* the quarantined file the row was built from.
restore_start(name) ==
    /\ name \in DOMAIN qdir
    /\ restore_call(name, name, "button")

\* if not os.path.exists(original_dir): os.makedirs(original_dir)
r_mkdir ==
    /\ op.pc = "mkdir"
    /\ IF op.filepath \in dirs
       THEN op' = [op EXCEPT !.pc = "copy"] /\ dirs' = dirs
       ELSE \E ok \in BOOLEAN :
               IF ok
               THEN /\ op' = [op EXCEPT !.pc = "copy",
                                        !.trace = Append(@, Event2("makedirs", 0))]
                    /\ dirs' = dirs \cup {op.filepath}
               ELSE /\ op' = [op EXCEPT !.pc = "return", !.report = "restore_failed"]
                    /\ dirs' = dirs
    /\ UNCHANGED <<scanVars, stats, fsVars, now, procs, has_psutil, copy_refused,
                   content, nops, store_log>>

\* r_copy as a move: the quarantined file is unlinked before the copy is
\* known to have succeeded.
r_copyUnlinksFirst ==
    /\ op.pc = "copy"
    /\ qdir' = Minus(qdir, op.name)
    /\ IF \/ op.filepath \notin dirs
          \/ op.filepath \in disk /\ RemoveRefused(op.filepath, procs)
       THEN /\ op' = [op EXCEPT !.pc = "return", !.report = "restore_failed"]
            /\ UNCHANGED <<disk, content, store_log>>
       ELSE /\ disk' = disk \cup {op.filepath}
            /\ content' = [content EXCEPT ![op.filepath] = qdir[op.name]]
            /\ store_log' = store_log \cup {Logged2("restored", op.filepath, qdir[op.name])}
            /\ op' = [op EXCEPT !.pc = "unlink"]
    /\ UNCHANGED <<scanVars, stats, meta, now, procs, has_psutil,
                   copy_refused, dirs, nops>>

\* r_copy that copies meta_path, the sidecar, instead of the quarantined
\* file (0 stands for the bytes of a sidecar, which no scanned file has).
r_copyFromMeta ==
    /\ op.pc = "copy"
    /\ IF \/ op.filepath \notin dirs
          \/ op.filepath \in disk /\ RemoveRefused(op.filepath, procs)
       THEN /\ op' = [op EXCEPT !.pc = "return", !.report = "restore_failed"]
            /\ UNCHANGED <<disk, content, store_log>>
       ELSE /\ disk' = disk \cup {op.filepath}
            /\ content' = [content EXCEPT ![op.filepath] = 0]
            /\ store_log' = store_log \cup {Logged2("restored", op.filepath, 0)}
            /\ op' = [op EXCEPT !.pc = "unlink"]
    /\ UNCHANGED <<scanVars, stats, qdir, meta, now, procs, has_psutil,
                   copy_refused, dirs, nops>>

\* shutil.copy2(filepath, original_path): refused while something holds the
\* destination open, and impossible without its directory.
r_copy ==
    /\ op.pc = "copy"
    /\ IF \/ op.filepath \notin dirs
          \/ op.filepath \in disk /\ RemoveRefused(op.filepath, procs)
       THEN /\ op' = [op EXCEPT !.pc = "return", !.report = "restore_failed"]
            /\ UNCHANGED <<disk, content, store_log>>
       ELSE /\ disk' = disk \cup {op.filepath}
            /\ content' = [content EXCEPT ![op.filepath] = qdir[op.name]]
            /\ store_log' = store_log \cup {Logged2("restored", op.filepath, qdir[op.name])}
            /\ op' = [op EXCEPT !.pc = "unlink"]
    /\ UNCHANGED <<scanVars, stats, qdir, meta, now, procs, has_psutil,
                   copy_refused, dirs, nops>>

\* r_unlink that leaves the sidecar behind.
r_unlinkKeepsMeta ==
    /\ op.pc = "unlink"
    /\ qdir' = Minus(qdir, op.name)
    /\ meta' = meta
    /\ op' = [op EXCEPT !.pc = "return", !.report = "restored"]
    /\ UNCHANGED <<scanVars, stats, disk, now, envVars, nops, store_log>>

\* os.remove(filepath); os.remove(meta_path); "파일이 복원되었습니다."
\* A removal that is refused raises into the except clause ("복원 실패").
r_unlink ==
    /\ op.pc = "unlink"
    /\ IF Held(op.name, "file")
       THEN /\ UNCHANGED <<qdir, meta>>
            /\ op' = [op EXCEPT !.pc = "return", !.report = "restore_failed"]
       ELSE IF Held(op.name, "meta")
       THEN /\ qdir' = Minus(qdir, op.name)
            /\ meta' = meta
            /\ op' = [op EXCEPT !.pc = "return", !.report = "restore_failed"]
       ELSE /\ qdir' = Minus(qdir, op.name)
            /\ meta' = Minus(meta, op.name)
            /\ op' = [op EXCEPT !.pc = "return", !.report = "restored"]
    /\ UNCHANGED <<scanVars, stats, disk, now, envVars, nops, store_log>>

\* The call returns to the event loop; its frame is gone. (A program that
\* held an entry of the quarantine directory open during the call has
\* closed it, or opens it anew during the next call.)
call_return ==
    /\ op.pc = "return"
    /\ op' = NoOp
    /\ qheld' = {}
    /\ UNCHANGED <<workerVars, njobs, guiVars, optionVars, has_detailed_scan, fsVars,
                   now, envVars, nops, store_log, formVars>>

\* ------------------------------------------------------------ environment
\* Process k exits (or closes its file) while the retry loop runs.
ProcClose(k) ==
    /\ op.pc \in {"read", "write", "remove"}
    /\ procs[k].alive
    /\ procs' = [procs EXCEPT ![k] = NoProc]
    /\ UNCHANGED <<scanVars, stats, fsVars, now, has_psutil, copy_refused,
                   content, dirs, callVars>>

\* Another program deletes the file a quarantine_file call is about, which
\* nothing holds open: before the call looks for it (a deletion at any time
\* since the scan comes to the same) or while the retry loop runs.
Vanish(p) ==
    /\ op.pc \in {"check", "read", "write", "remove"}
    /\ p = op.filepath
    /\ p \in disk
    /\ ~RemoveRefused(p, procs)
    /\ disk' = disk \ {p}
    /\ UNCHANGED <<scanVars, stats, lock, qdir, meta, now, envVars, callVars>>

\* The emptied directory of a quarantined file is removed: nothing but the
\* restore of that file looks at it, so the removal is taken when that
\* restore has started, before its makedirs or before its copy.
RemoveDir(p) ==
    /\ op.pc \in {"mkdir", "copy"}
    /\ p = op.filepath
    /\ p \in dirs
    /\ p \notin disk
    /\ \E n \in DOMAIN meta : meta[n].original_path = p
    /\ dirs' = dirs \ {p}
    /\ UNCHANGED <<scanVars, stats, fsVars, now, procs, has_psutil, copy_refused,
                   content, callVars>>

\* The threat name the rows of the result table carry.
Threats == {1}

\* Sessions of up to MaxOps calls of quarantine_file and any number of
\* restore_file calls, on a machine whose processes hold files open.
InitQuarantine ==
    /\ InitScan(Paths, TRUE, FALSE)
    /\ has_detailed_scan
    /\ procs \in [Procs -> ProcInputs]
    /\ Ordered(procs)
    /\ has_psutil \in BOOLEAN
    /\ copy_refused \in BOOLEAN
    /\ content = [p \in Paths |-> p]
    /\ dirs = Paths
    /\ op = NoOp
    /\ nops = 0
    /\ store_log = {}
    /\ qheld = {}
    /\ QuietForms

NextQuarantine ==
    \/ \E p \in Paths, threat_name \in Threats : quarantine_start(p, threat_name)
    \/ q_check
    \/ q_read
    \/ q_write
    \/ q_remove
    \/ q_meta
    \/ \E name \in DOMAIN qdir : restore_start(name)
    \/ r_mkdir
    \/ r_copy
    \/ r_unlink
    \/ call_return
    \/ \E k \in Procs : ProcClose(k)
    \/ \E p \in Paths : Vanish(p)
    \/ \E p \in Paths : RemoveDir(p)

SpecQuarantine == InitQuarantine /\ [][NextQuarantine]_vars

\* ------------------------------------------------ the quarantine tab
\* A file name of the quarantine directory that is an original file name
\* (no timestamp prefix) rather than a quarantine filename.
NoStamp == -1
OriginalName(original_filename) == [timestamp |-> NoStamp, safe_name |-> original_filename]

\* refresh_quarantine: one row per entry that is not a sidecar; column 0
\* shows original_filename of the sidecar, or the file name without one.
Rows == DOMAIN qdir
Column0(n) ==
    IF n \in DOMAIN meta THEN OriginalName(meta[n].original_filename) ELSE n

\* os.path.join(QUARANTINE_DIR, filename) for the text of column 0.
SelectedPath(n) == Column0(n)

\* restore_from_quarantine: the path is built from column 0 of the
\* selected row and given to restore_file.
restore_from_quarantine(n) ==
    /\ n \in Rows
    /\ restore_call(SelectedPath(n), n, "selected")

\* delete_file(filepath): the confirmation dialog.
delete_call(filepath, row, via) ==
    LET o == [NoOp EXCEPT !.call = "delete", !.name = filepath, !.row = row,
                          !.via = via]
    IN
    /\ op.pc = "idle"
    /\ \E reply \in BOOLEAN :
          op' = [o EXCEPT !.pc = IF reply THEN "delete" ELSE "return"]
    /\ UNCHANGED <<scanVars, stats, fsVars, now, envVars, nops, store_log>>

\* delete_file after the confirmation: os.remove(filepath), then os.remove
\* of the sidecar if there is one; any failure ends the call in the except
\* clause ("삭제 실패").
d_remove ==
    LET filepath == op.name
        o == [op EXCEPT !.pc = "return"]
    IN
    /\ op.pc = "delete"
    /\ IF filepath \notin DOMAIN qdir \/ Held(filepath, "file")
       THEN /\ op' = [o EXCEPT !.report = "delete_failed"]
            /\ UNCHANGED <<qdir, meta>>
       ELSE /\ qdir' = Minus(qdir, filepath)
            /\ IF filepath \in DOMAIN meta /\ Held(filepath, "meta")
               THEN /\ meta' = meta
                    /\ op' = [o EXCEPT !.report = "delete_failed"]
               ELSE /\ meta' = Minus(meta, filepath)
                    /\ op' = [o EXCEPT !.report = "deleted"]
    /\ UNCHANGED <<scanVars, stats, disk, now, envVars, nops, store_log>>

\* The delete button of a row, bound to the path of its quarantined file.
delete_file(name) ==
    /\ name \in DOMAIN qdir
    /\ delete_call(name, name, "button")

\* delete_from_quarantine: the path is built from column 0 of the selected
\* row and given to delete_file.
delete_from_quarantine(n) ==
    /\ n \in Rows
    /\ delete_call(SelectedPath(n), n, "selected")

\* clear_quarantine: the confirmation dialog.
clear_quarantine ==
    /\ op.pc = "idle"
    /\ \E reply \in BOOLEAN :
          op' = [NoOp EXCEPT !.call = "clear", !.pc = IF reply THEN "clear" ELSE "return"]
    /\ UNCHANGED <<scanVars, stats, fsVars, now, envVars, nops, store_log>>

\* clear_quarantine after the confirmation: one try around the loop over
\* os.listdir, which lists the entries in arbitrary order. Without a
\* refusal every entry is removed; otherwise the loop ends at the first
\* entry `first` that cannot be removed, the entries `before` it having
\* been removed ("삭제 실패").
c_remove ==
    LET o == [op EXCEPT !.pc = "return"]
        all == Entries(qdir, meta)
        Left(E) == {e.name : e \in {x \in E : x.kind = "file"}}
        LeftMeta(E) == {e.name : e \in {x \in E : x.kind = "meta"}}
        After(removed) ==
            /\ qdir' = [n \in Left(all \ removed) |-> qdir[n]]
            /\ meta' = [n \in LeftMeta(all \ removed) |-> meta[n]]
    IN
    /\ op.pc = "clear"
    /\ IF all \cap qheld = {}
       THEN /\ After(all)
            /\ op' = [o EXCEPT !.report = "cleared", !.tried = all]
       ELSE \E first \in all \cap qheld, before \in SUBSET (all \ qheld) :
               /\ After(before)
               /\ op' = [o EXCEPT !.report = "delete_failed",
                                  !.trace = <<Event2("remove_failed", 1)>>,
                                  !.tried = before \cup {first}]
    /\ UNCHANGED <<scanVars, stats, disk, now, envVars, nops, store_log>>

\* Another program (an indexer, a second scanner) opens an entry of the
\* quarantine directory that the call in progress is about to remove.
HoldEntry(e) ==
    /\ op.pc \in {"unlink", "delete", "clear"}
    /\ op.pc # "clear" => e.name = op.name
    /\ e \in Entries(qdir, meta) \ qheld
    /\ qheld' = qheld \cup {e}
    /\ UNCHANGED <<workerVars, njobs, guiVars, optionVars, has_detailed_scan, fsVars,
                   now, envVars, callVars, formVars>>

\* The quarantine button of a result row, in the sessions of the
\* quarantine tab.
quarantine_row(filepath, threat_name) == quarantine_call(filepath, threat_name, MaxCalls)

\* Sessions of the quarantine tab: up to MaxCalls quarantines from the
\* result table, and any number of restores, deletions and clearings, on
\* a machine where nothing holds the scanned files open.
InitStore == Init /\ has_detailed_scan

EntryNames == [timestamp : 0..MaxClock, safe_name : {BaseName(p) : p \in Paths}]

NextStore ==
    \/ \E p \in Paths, threat_name \in Threats : quarantine_row(p, threat_name)
    \/ q_check
    \/ q_read
    \/ q_write
    \/ q_remove
    \/ q_meta
    \/ \E name \in DOMAIN qdir : restore_start(name)
    \/ \E n \in DOMAIN qdir : restore_from_quarantine(n)
    \/ r_mkdir
    \/ r_copy
    \/ r_unlink
    \/ \E name \in DOMAIN qdir : delete_file(name)
    \/ \E n \in DOMAIN qdir : delete_from_quarantine(n)
    \/ d_remove
    \/ call_return

SpecStore == InitStore /\ [][NextStore]_vars

\* The same sessions with the "격리소 비우기" button of the tab, on a machine
\* where other programs open entries of the quarantine directory.
NextTab ==
    \/ NextStore
    \/ clear_quarantine
    \/ c_remove
    \/ \E e \in [name : EntryNames, kind : {"file", "meta"}] : HoldEntry(e)

SpecTab == InitStore /\ [][NextTab]_vars

\* ------------------------------------------------------------- add_hash
\* The text of hash_value_input: len characters other than surrounding
\* white space; hex: all of them are hexadecimal digits; upper: some are
\* upper-case letters; pad: white space surrounds them.
HashLens == {0, 31, 32, 33, 63, 64, 65}
HashTexts == {t \in [len : HashLens, hex : BOOLEAN, upper : BOOLEAN, pad : BOOLEAN] :
                t.len = 0 => t.hex /\ ~t.upper}
strip(t) == [t EXCEPT !.pad = FALSE]
lowerText(t) == [t EXCEPT !.upper = FALSE]

\* The text of hash_name_input: empty, white space only, or a name.
NameTexts == {"empty", "blank", "name"}
stripName(n) == IF n = "blank" THEN "empty" ELSE n

\* add_hash: the button of the signature tab. The engine is called with
\* the stripped, lower-cased hash when it has the length of its type; the
\* call may raise. (The severity spin box is passed on unchecked.)
add_hash ==
    LET f == hash_form
        hash_value == lowerText(strip(f.hash_value_input))
        threat_name == stripName(f.hash_name_input)
        expected_len == IF f.is_sha256 THEN 64 ELSE 32
    IN
    /\ IF ~f.has_add_hash
       THEN hash_form' = [f EXCEPT !.report = "unsupported"]
       ELSE IF hash_value.len = 0 \/ threat_name = "empty"
       THEN hash_form' = [f EXCEPT !.report = "missing"]
       ELSE IF hash_value.len # expected_len
       THEN hash_form' = [f EXCEPT !.report = "bad_length"]
       ELSE \E raises \in BOOLEAN :
               LET called == f.calls \cup {[hash_value |-> hash_value,
                                            threat_name |-> threat_name,
                                            is_sha256 |-> f.is_sha256]}
               IN IF raises
                  THEN hash_form' = [f EXCEPT !.calls = called, !.report = "failed"]
                  ELSE hash_form' = [f EXCEPT !.calls = called, !.report = "added",
                                              !.hash_value_input = NoHashForm.hash_value_input,
                                              !.hash_name_input = "empty"]
    /\ UNCHANGED <<workerVars, njobs, guiVars, optionVars, has_detailed_scan, fsVars,
                   now, envVars, callVars, qheld, walk, settings>>

\* The signature tab with its form filled in, on an engine with or without
\* add_hash.
InitHash ==
    /\ InitScan(Paths, TRUE, FALSE)
    /\ has_detailed_scan
    /\ QuietFiles
    /\ walk = NoWalk
    /\ settings = NoSettings
    /\ hash_form \in [has_add_hash : BOOLEAN, hash_value_input : HashTexts,
                      hash_name_input : NameTexts, is_sha256 : BOOLEAN,
                      calls : {{}}, report : {"none"}]

NextHash == add_hash

SpecHash == InitHash /\ [][NextHash]_vars

\* ------------------------------------------------------ drive enumeration
\* A drive as os.walk sees it: the numbers of files of the directories it
\* yields, in order, and how the walk ends: "none", normally; "ignored",
\* the drive cannot be listed, which os.walk (onerror=None) swallows,
\* yielding nothing; "raises", an exception leaves the loop after the
\* directories listed.
DirSizes == {0, 1, DriveCap}
DirLists == UNION {[1..n -> DirSizes] : n \in 0..MaxDirs}
Drives == {r \in [dirs : DirLists, fault : {"none", "ignored", "raises"}] :
             r.fault = "ignored" => r.dirs = <<>>}
DriveLists == UNION {[1..n -> Drives] : n \in 1..MaxRoots}

Cap(kind) ==
    CASE kind = "full" -> FullScanCap
      [] kind = "drive" -> DriveCap
      [] kind = "usb" -> UsbCap
      [] OTHER -> AllDrivesCap

\* The inner loop over the n files of one directory, the list having len
\* entries: append each, and break as soon as len(file_list) > cap. The
\* number appended.
Appended(n, len, cap) ==
    IF n = 0 THEN 0
    ELSE LET until == IF cap + 1 - len >= 1 THEN cap + 1 - len ELSE 1
         IN IF n <= until THEN n ELSE until

\* for root, _, files in os.walk(drive): the break leaves the inner loop
\* only, so every later directory is still visited. len(file_list) after
\* the walk.
RECURSIVE WalkDirs(_, _, _)
WalkDirs(sizes, len, cap) ==
    IF sizes = <<>> THEN len
    ELSE WalkDirs(Tail(sizes), len + Appended(Head(sizes), len, cap), cap)

\* What the handlers leave alone.
walkRest == <<workerVars, njobs, guiVars, optionVars, has_detailed_scan, fsVars,
              now, envVars, callVars, qheld, hash_form, settings>>

\* The outcome of a handler that walks one drive: _start_batch_scan with a
\* non-empty list (the job itself is the subject of Spec), or a message.
OneDrive(kind, d, report_error) ==
    LET r == walk.roots[d]
        n == WalkDirs(r.dirs, 0, Cap(kind))
    IN [walk EXCEPT !.pc = "done", !.kind = kind, !.drive = d,
                    !.counts = IF r.fault = "raises" THEN <<>> ELSE <<n>>,
                    !.file_list = IF r.fault = "raises" THEN 0 ELSE n,
                    !.report = IF r.fault = "raises" THEN report_error
                               ELSE IF n > 0 THEN "started" ELSE "empty"]

\* full_system_scan: the walk of the system drive is in no try, so an
\* exception leaves the slot; an empty list is passed over in silence.
full_system_scan ==
    /\ walk.pc = "idle"
    /\ scan_btns
    /\ walk' = [OneDrive("full", 1, "exception") EXCEPT
                   !.report = IF @ = "empty" THEN "nothing" ELSE @]
    /\ UNCHANGED walkRest

\* scan_drive: the user picks a drive; an exception of the walk is shown
\* ("드라이브 접근 오류") and the handler returns.
scan_drive ==
    /\ walk.pc = "idle"
    /\ scan_btns
    /\ \E d \in 1..Len(walk.roots) : walk' = OneDrive("drive", d, "error")
    /\ UNCHANGED walkRest

\* scan_usb: as scan_drive, for a removable drive.
scan_usb ==
    /\ walk.pc = "idle"
    /\ scan_btns
    /\ \E d \in 1..Len(walk.roots) : walk' = OneDrive("usb", d, "error")
    /\ UNCHANGED walkRest

\* The loop of scan_all_drives from drive k on: the files of a drive are
\* appended to the one list; a drive whose walk raises is printed to the
\* console and passed over (continue), the others are appended to
\* scanned_drives with their number of files.
RECURSIVE AllDrives(_, _, _)
AllDrives(roots, k, w) ==
    IF k > Len(roots) THEN w
    ELSE LET r == roots[k]
             n == WalkDirs(r.dirs, w.file_list, AllDrivesCap)
             drive_files == n - w.file_list
         IN AllDrives(roots, k + 1,
                [w EXCEPT !.file_list = n,
                          !.counts = Append(@, drive_files),
                          !.scanned_drives =
                              IF r.fault = "raises" THEN @
                              ELSE Append(@, [drive |-> k, drive_files |-> drive_files])])

\* scan_all_drives: the scan type names the drives of scanned_drives.
scan_all_drives ==
    /\ walk.pc = "idle"
    /\ scan_btns
    /\ LET w == AllDrives(walk.roots, 1, [walk EXCEPT !.kind = "all"])
       IN walk' = [w EXCEPT !.pc = "done",
                            !.report = IF w.file_list > 0 THEN "started" ELSE "empty"]
    /\ UNCHANGED walkRest

\* A Windows machine with its drives, and one click on a scan button.
InitWalk ==
    /\ InitScan(Paths, TRUE, FALSE)
    /\ has_detailed_scan
    /\ QuietFiles
    /\ hash_form = NoHashForm
    /\ settings = NoSettings
    /\ walk \in {[NoWalk EXCEPT !.roots = rs] : rs \in DriveLists}

NextWalk ==
    \/ full_system_scan
    \/ scan_drive
    \/ scan_usb
    \/ scan_all_drives

SpecWalk == InitWalk /\ [][NextWalk]_vars

\* ---------------------------------------------------------- load_settings
\* settings.json: missing; unreadable (open raises); invalid (json.load
\* raises); or a JSON document: an object with some of the keys, an array
\* or a string (elems: the keys that are elements of the array, or occur
\* in the string), or a scalar (number, true, false, null).
SettingsFiles ==
    {NoFile(t) : t \in {"missing", "unreadable", "invalid", "scalar"}}
    \cup {Doc("object", f, {}) : f \in UNION {[K -> 1..MaxVal] : K \in SUBSET SettingKeys}}
    \cup {Doc(t, [k \in {} |-> 0], E) : t \in {"array", "string"}, E \in SUBSET SettingKeys}

\* load_settings(): everything after os.path.exists is inside try with a
\* bare except that returns the defaults. `key not in settings` is a key
\* test on an object, an element test on an array, a substring test on a
\* string and a TypeError on a scalar; settings[key] = value is a TypeError
\* on an array and on a string.
load_settings(file) ==
    IF file.type \in {"missing", "unreadable", "invalid", "scalar"}
    THEN DefaultSettings
    ELSE IF file.type = "object"
    THEN IF quarantine_dir \in DOMAIN file.fields
         THEN file
         ELSE Doc("object", Put(file.fields, quarantine_dir, DefaultDir), {})
    ELSE IF quarantine_dir \in file.elems
         THEN file
         ELSE DefaultSettings

\* Module start: SETTINGS = load_settings();
\* QUARANTINE_DIR = SETTINGS['quarantine_dir'].
load ==
    /\ settings.pc = "start"
    /\ LET st == load_settings(settings.file) IN
       settings' = [settings EXCEPT !.pc = "loaded", !.SETTINGS = st,
                       !.startup = IF st.type = "object" THEN "ok" ELSE "TypeError"]
    /\ UNCHANGED <<workerVars, njobs, guiVars, optionVars, has_detailed_scan, fsVars,
                   now, envVars, callVars, qheld, hash_form, walk>>

InitSettings ==
    /\ InitScan(Paths, TRUE, FALSE)
    /\ has_detailed_scan
    /\ QuietFiles
    /\ hash_form = NoHashForm
    /\ walk = NoWalk
    /\ settings \in {[NoSettings EXCEPT !.file = f, !.pc = "start"] : f \in SettingsFiles}

NextSettings == load

SpecSettings == InitSettings /\ [][NextSettings]_vars

\* ================================================================ claims
\* Helpers of the statements below.
Started == {j \in Jobs : thread[j].pc # "none"}
Flagged(status) == status \in {1, 2, 3}
BucketSum(snap) == snap.clean + snap.malicious + snap.suspicious + snap.errors
Positions(seq, sig) == {k \in 1..Len(seq) : seq[k].sig = sig}
\* Place of a signal within the events of one item; the stop message and
\* the terminal signal come after every item.
Rank(sig) ==
    CASE sig \in {"result_detailed", "result_msg"} -> 1
      [] sig = "stats_update" -> 2
      [] sig = "progress" -> 3
      [] sig = "stopped_msg" -> 4
      [] OTHER -> 5
ItemSignal(e) == Rank(e.sig) <= 3

\* C1: every stats snapshot a worker emits (each one is in the queue when it
\* is emitted), and the copy the GUI keeps of the last one, has
\* clean + malicious + suspicious + errors = total, whatever codes the
\* adapter returned and in both modes; the total of a snapshot is the number
\* of targets scanned so far.
C1_SnapshotSum ==
    /\ \A k \in Positions(queue, "stats_update") :
          /\ BucketSum(queue[k].stats) = queue[k].stats.total
          /\ queue[k].stats.total = queue[k].i
    /\ \A j \in Started :
          /\ BucketSum(Snapshot(thread[j].stats)) = thread[j].stats.total_scanned
          /\ thread[j].pc = "loop" => thread[j].stats.total_scanned = thread[j].i
    /\ BucketSum(Snapshot(stats)) = stats.total_scanned

\* A basic-mode job has emitted the snapshot of its second target, whose
\* code is outside {0, 1, 2, 3, -1}.
C1_Witness ==
    \E k \in Positions(queue, "stats_update") :
        /\ ~thread[queue[k].job].use_detailed
        /\ thread[queue[k].job].status = UnknownCode
        /\ queue[k].stats.total = 2
        /\ queue[k].stats.errors >= 1

\* C2: at most one scan job is running at any time.
C2_OneRunning == Cardinality({j \in Jobs : isRunning(j)}) <= 1

\* C3: for a cancelled job the progress value shown never exceeds the number
\* of targets actually scanned, also after the terminal signal is handled.
C3_ProgressWithinScanned ==
    \A j \in Started :
        thread[j].stop_requested =>
            progress.value <= thread[j].stats.total_scanned

\* C4: once the stop flag of a worker is set it stays set and the worker
\* takes no further target; an adapter call in flight that returns still has
\* its result, stats and progress emitted, for that same target; the targets
\* beyond it are never scanned.
C4_Cooperative ==
    [][\A j \in Jobs :
          thread[j].stop_requested =>
             /\ thread'[j].stop_requested
             /\ thread'[j].i = thread[j].i
             /\ thread'[j].stats.total_scanned <= thread[j].i
             /\ (thread[j].pc = "scan" /\ thread'[j].pc = "loop") =>
                   LET L == thread'[j].log
                       n == Len(L)
                   IN /\ n = Len(thread[j].log) + (IF thread[j].use_detailed THEN 4 ELSE 3)
                      /\ L[n] = [sig |-> "progress", i |-> thread[j].i, total |-> 0]
                      /\ L[n - 1].sig = "stats_update" /\ L[n - 1].i = thread[j].i
                      /\ L[n - 2].sig = "result_msg" /\ L[n - 2].i = thread[j].i
                      /\ thread'[j].stats.total_scanned = thread[j].i
      ]_vars

\* A job of two targets stopped during the call on the first one: the first
\* target was scanned and reported, the second never taken.
C4_Witness ==
    \E j \in Started :
        /\ thread[j].stop_requested
        /\ thread[j].pc = "done"
        /\ Len(thread[j].file_list) = 2
        /\ thread[j].i = 1
        /\ thread[j].stats.total_scanned = 1
        /\ Positions(thread[j].log, "stopped_msg") # {}

\* C5: an adapter failure on a target never aborts the job, and the verdict
\* recorded for that target is Error (-1).
C5_FailureIsErrorVerdict ==
    \A j \in Started :
        thread[j].raised => thread[j].pc # "crashed" /\ thread[j].status = -1

\* C6: the signals of a worker come item by item, and within an item the
\* result, then the stats snapshot, then the 1-based progress index; the
\* snapshot of item i counts exactly i targets; the GUI queue holds them in
\* the same order.
C6_PerItemOrder ==
    /\ \A j \in Started :
          LET L == thread[j].log IN
          /\ \A b \in 1..Len(L) :
                \/ Rank(L[b].sig) > 3
                \/ \A a \in 1..(b - 1) :
                      /\ ItemSignal(L[a])
                      /\ \/ L[a].i < L[b].i
                         \/ L[a].i = L[b].i /\ Rank(L[a].sig) <= Rank(L[b].sig)
          /\ \A b \in Positions(L, "stats_update") :
                /\ L[b].total = L[b].i
                /\ \E a \in 1..(b - 1) : Rank(L[a].sig) = 1 /\ L[a].i = L[b].i
          /\ \A b \in Positions(L, "progress") :
                /\ L[b].i \in 1..Len(thread[j].file_list)
                /\ b > 1 /\ L[b - 1].sig = "stats_update" /\ L[b - 1].i = L[b].i
          /\ \A a, b \in Positions(L, "progress") : L[a].i = L[b].i => a = b
          /\ thread[j].use_detailed =>
                \A b \in Positions(L, "stats_update") :
                   \E a \in Positions(L, "result_detailed") : a < b /\ L[a].i = L[b].i
    /\ \A b \in 1..Len(queue) :
          \A a \in 1..(b - 1) :
             queue[a].job = queue[b].job
                => \/ queue[a].i < queue[b].i
                   \/ queue[a].i = queue[b].i /\ Rank(queue[a].sig) < Rank(queue[b].sig)

\* A detailed job has emitted everything for two targets and finished.
C6_Witness ==
    \E j \in Started :
        /\ thread[j].use_detailed
        /\ thread[j].pc = "done"
        /\ Len(thread[j].log) = 9
        /\ thread[j].log[8] = [sig |-> "progress", i |-> 2, total |-> 0]

\* C7: with auto-quarantine on, while the adapter is invoked on a target no
\* earlier flagged target of the job still waits to be quarantined.
C7_QuarantineBeforeNextScan ==
    \A j \in Started :
        (auto_quarantine_check /\ thread[j].pc = "scan") =>
            \A k \in Positions(queue, "result_detailed") :
                ~(queue[k].job = j /\ Flagged(queue[k].status))

\* C8: with auto-quarantine on, in either mode, a job over existing unlocked
\* files ends with one quarantine record per flagged target.
C8_RecordPerFlaggedTarget ==
    (/\ auto_quarantine_check
     /\ njobs = 1
     /\ thread[1].pc = "done"
     /\ queue = <<>>)
        => Cardinality(DOMAIN meta)
              = thread[1].stats.malicious_files + thread[1].stats.suspicious_files

\* C9: a job emits its terminal signal once, as its last signal, exactly
\* when run() returns normally; handling it appends one history entry for
\* that job, after all the job's other signals were handled; a job still
\* running has none; an append leaves the existing entries as they were.
HistoryOf(j) == {k \in 1..Len(history_job) : history_job[k] = j}

C9_Terminal ==
    /\ Len(scan_history) = Len(history_job)
    /\ \A j \in Started :
          LET L == thread[j].log
              F == Positions(L, "finished")
              Q == {k \in 1..Len(queue) : queue[k].job = j}
              QF == {k \in Q : queue[k].sig = "finished"}
          IN /\ Cardinality(F) <= 1
             /\ F # {} <=> thread[j].pc = "done"
             /\ F # {} => F = {Len(L)}
             /\ Cardinality(HistoryOf(j)) + Cardinality(QF) = Cardinality(F)
             /\ \A k \in QF : \A m \in Q : m <= k
             /\ HistoryOf(j) # {} => Q = {}

C9_AppendOnly ==
    [][scan_history' # scan_history =>
          /\ Len(scan_history') = Len(scan_history) + 1
          /\ SubSeq(scan_history', 1, Len(scan_history)) = scan_history
          /\ Head(queue).sig = "finished"
          /\ history_job' = Append(history_job, Head(queue).job)]_vars

C10_CancelledNotComplete ==
    \A k \in 1..Len(scan_history) :
        LET t == thread[history_job[k]] IN
        (t.stop_requested /\ t.stats.total_scanned < Len(t.file_list))
            => scan_history[k].status # "complete"

\* ------------------------------------------------ quarantine and restore
\* Helpers: the positions of the events of a kind in the trace of a call.
TracePos(ev) == {i \in 1..Len(op.trace) : op.trace[i].ev = ev}
Failures == TracePos("PermissionError") \cup TracePos("Exception")
Returned(call) == op.pc = "return" /\ op.call = call

\* C11: every sidecar in the quarantine directory has, under the same
\* quarantine filename, a complete copy of the file its original_path
\* names, whatever step of the retry loop was refused.
C11_RecordHasCopy ==
    \A n \in DOMAIN meta :
        n \in DOMAIN qdir /\ qdir[n] = meta[n].original_path

\* C12: a quarantine_file call on a file that exists, that nothing holds
\* open when the call looks for it, that stays in place until the call
\* removes it, and whose copy the quarantine directory accepts, succeeds on
\* its first attempt: the record has original_deleted = true, the copy has
\* the bytes of the original and the original path is gone.
C12_UnlockedSucceeds ==
    ( /\ Returned("quarantine")
      /\ op.report # "not_found"
      /\ ~op.held
      /\ ~copy_refused
      /\ TracePos("Exception") = {} )
    => /\ op.report = "success"
       /\ op.attempt = 0
       /\ Failures = {}
       /\ op.name \in DOMAIN meta
       /\ meta[op.name].original_deleted
       /\ meta[op.name].original_path = op.filepath
       /\ op.name \in DOMAIN qdir
       /\ qdir[op.name] = content[op.filepath]
       /\ op.filepath \notin disk

\* An unlocked file has been quarantined at the first attempt while a
\* process holds another path.
C12_Witness ==
    /\ Returned("quarantine")
    /\ op.report = "success"
    /\ op.attempt = 0
    /\ ~op.held
    /\ op.filepath \notin disk
    /\ \E k \in Procs : procs[k].alive

\* The attempts of the call that reached os.remove (each sleeps 0.2 s
\* first) and were refused there: all max_retries of them.
RemovalRefusedThroughout ==
    /\ Cardinality({i \in TracePos("sleep") : op.trace[i].n = 2}) = max_retries
    /\ Cardinality(TracePos("PermissionError")) = max_retries
    /\ TracePos("Exception") = {}

\* C13: a quarantine_file call whose os.remove was refused on all five
\* attempts ends in partial success: the record has original_deleted =
\* false, the copy has the bytes of the original, the original is still
\* there, and the call returns with the partial-success notice, no error.
C13_HeldPartialSuccess ==
    (Returned("quarantine") /\ RemovalRefusedThroughout)
    => /\ op.report = "partial"
       /\ op.name \in DOMAIN meta
       /\ ~meta[op.name].original_deleted
       /\ meta[op.name].original_path = op.filepath
       /\ op.name \in DOMAIN qdir
       /\ qdir[op.name] = content[op.filepath]
       /\ op.filepath \in disk
       /\ stats.quarantined >= 1

\* A file held by a deny-listed process through the whole retry window,
\* with psutil present and the forced release tried twice.
C13_Witness ==
    /\ Returned("quarantine")
    /\ RemovalRefusedThroughout
    /\ has_psutil
    /\ Cardinality(TracePos("force")) = 2
    /\ \E k \in Holders(op.filepath, procs) : procs[k].kind = "critical"

\* C14: a quarantine_file call on a path that does not exist reports
\* "not found" and returns at once, leaving the quarantine directory and
\* the quarantined counter as they were.
C14_NotFound ==
    [][(op.pc = "check" /\ op.filepath \notin disk /\ op' # op)
          => /\ op'.pc = "return"
             /\ op'.report = "not_found"
             /\ qdir' = qdir
             /\ meta' = meta
             /\ disk' = disk
             /\ stats' = stats]_vars

\* A call has returned "not found" for a file deleted since its row was
\* made.
C14_Witness ==
    /\ Returned("quarantine")
    /\ op.report = "not_found"
    /\ op.filepath \notin disk
    /\ qdir = EmptyStore
    /\ stats.quarantined = 0

\* C15: a quarantine_file call makes at most five attempts, none after the
\* removal has succeeded; the k-th failed attempt, k = 1..4, is followed at
\* once by a wait of 0.5 s x k (5k tenths of a second), and the 5th by
\* nothing.
C15_AttemptsAndBackoff ==
    op.call = "quarantine" =>
       /\ op.attempt <= max_retries - 1
       /\ \A i \in 1..Len(op.trace) : op.trace[i].ev = "removed" => i = Len(op.trace)
       /\ \A i \in Failures :
             /\ op.trace[i].n <= max_retries
             /\ op.trace[i].n < max_retries =>
                   /\ i < Len(op.trace)
                   /\ op.trace[i + 1] = Event2("sleep", 5 * op.trace[i].n)
             /\ op.trace[i].n = max_retries => i = Len(op.trace)

C17_KillsOnlyHolders ==
    \A r \in op.killed :
        r.open = PathOf(r.target) /\ r.kind # "critical"

\* C18: quarantines of distinct original files get distinct quarantine
\* filenames, so each leaves its own record: the records in the quarantine
\* directory are as many as the quarantines made (a file is quarantined at
\* most once in a scan), also for files in different directories that
\* share a basename and are quarantined within the same second.
C18_DistinctNames ==
    /\ Cardinality(DOMAIN meta) = stats.quarantined
    /\ Cardinality(DOMAIN qdir) = stats.quarantined

\* C19: a restore_file call that reports success has put the quarantined
\* bytes at the original_path of the record, whose directory exists (it is
\* created when missing), and has removed the quarantined file and its
\* sidecar from the quarantine directory.
C19_RestorePutsBack ==
    (Returned("restore") /\ op.report = "restored")
    => /\ op.filepath \in disk
       /\ content[op.filepath] = op.file_data
       /\ op.filepath \in dirs
       /\ op.name \notin DOMAIN qdir
       /\ op.name \notin DOMAIN meta

\* A file has been restored into a directory that had to be created anew.
C19_Witness ==
    /\ Returned("restore")
    /\ op.report = "restored"
    /\ TracePos("makedirs") # {}
    /\ op.filepath \in disk

\* After a failed restore the quarantined file and its sidecar are there.
C20_StoreKept ==
    (Returned("restore") /\ op.report = "restore_failed")
    => /\ op.name \in DOMAIN qdir
       /\ qdir[op.name] = op.file_data
       /\ op.name \in DOMAIN meta
       /\ meta[op.name].original_path = op.filepath

\* The step of a restore at which makedirs or the copy fails reports the
\* failure and changes nothing in the quarantine directory.
C20_FailingStep ==
    [][(op.call = "restore" /\ op.pc \in {"mkdir", "copy"} /\ op'.pc = "return")
          => /\ op'.report = "restore_failed"
             /\ qdir' = qdir
             /\ meta' = meta]_vars

\* C20: when os.makedirs or shutil.copy2 fails in restore_file the failure
\* is reported and the quarantine directory is unchanged: the quarantined
\* file and its sidecar both remain.
C20_FailedRestoreKeepsStore == []C20_StoreKept /\ C20_FailingStep

\* A restore has failed because the directory could not be created.
C20_Witness ==
    /\ Returned("restore")
    /\ op.report = "restore_failed"
    /\ op.filepath \notin dirs
    /\ op.name \in DOMAIN qdir

\* ------------------------------------------------------ the quarantine tab
\* The entries of the history about path p: the copies written of it and
\* the restores that put it back.
CopiesOf(p) == {e \in store_log : e.ev = "copy" /\ e.path = p}
RestoresOf(p) == {e \in store_log : e.ev = "restored" /\ e.path = p}

\* C21: round trip. When a file is quarantined, its record restored and the
\* file at the same path quarantined again, the second copy written to
\* the store has the bytes of the first; and after the restore, until
\* another quarantine_file call begins, the original path holds the bytes
\* the first copy was made of.
C21_RoundTrip ==
    \A p \in Paths : \A c1 \in CopiesOf(p), r \in RestoresOf(p) :
        c1.n <= r.n =>
            /\ \A c2 \in CopiesOf(p) : r.n < c2.n => c2.data = c1.data
            /\ r.n = nops => p \in disk /\ content[p] = c1.data

\* A second quarantine of a restored file has succeeded.
C21_Witness ==
    /\ Returned("quarantine")
    /\ op.report = "success"
    /\ \E c1 \in CopiesOf(op.filepath), r \in RestoresOf(op.filepath),
          c2 \in CopiesOf(op.filepath) :
          c1.n <= r.n /\ r.n < c2.n /\ c2.n = nops /\ qdir[op.name] = c2.data

\* C22: clear_quarantine tries to delete every entry of the quarantine
\* directory: when it returns, the entries left are the ones whose removal
\* was refused, each of them was tried, and what it reports counts them.
C22_ClearContinues ==
    (Returned("clear") /\ op.report # "none") =>
        LET left == Entries(qdir, meta) IN
        /\ left \subseteq qheld
        /\ left \subseteq op.tried
        /\ Cardinality(TracePos("remove_failed")) = Cardinality(left)

\* C27: between two operations of the quarantine tab the store is
\* one-to-one: the quarantined files and the sidecars bear the same names
\* (no copy without its sidecar, no sidecar without its copy).
C27_OneToOne == op.pc = "idle" => DOMAIN qdir = DOMAIN meta

\* C29: restore_from_quarantine and delete_from_quarantine act on the
\* quarantined file of the selected row: the path they give to
\* restore_file / delete_file is the quarantine filename of the row's
\* record, whenever its original filename differs from that name.
C29_SelectedRowPath ==
    (op.via = "selected" /\ Column0(op.row) # op.row) => op.name = op.row

\* ------------------------------------------------------------- add_hash
\* C23: the engine's add_hash is called only with a hash of exactly 32
\* hexadecimal characters (MD5) or exactly 64 (SHA256).
C23_HashValidated ==
    \A c \in hash_form.calls :
        /\ c.hash_value.hex
        /\ c.hash_value.len = (IF c.is_sha256 THEN 64 ELSE 32)

\* ------------------------------------------------------ drive enumeration
\* C24: the list a scan handler enumerates never exceeds the cap of its
\* source (10,000 full system, 50,000 one drive, 50,000 USB, 100,000 in
\* total for all drives).
C24_WithinCap == walk.pc = "done" => walk.file_list <= Cap(walk.kind)

\* The drives of the machine that could not be traversed.
Untraversed == {k \in 1..Len(walk.roots) : walk.roots[k].fault # "none"}

\* C25: scan_all_drives passes over a drive that cannot be traversed and
\* goes on: it always ends in a started scan or the no-files message, the
\* files of every other drive are in the list, and the number of drives
\* left out of what it reports is the number of drives passed over.
C25_BadRootSkipped ==
    (walk.pc = "done" /\ walk.kind = "all") =>
        /\ walk.report \in {"started", "empty"}
        /\ \A k \in 1..Len(walk.roots) :
              (walk.roots[k].fault = "none"
                 /\ \E i \in 1..Len(walk.roots[k].dirs) : walk.roots[k].dirs[i] > 0)
              => walk.counts[k] > 0
        /\ Len(walk.roots) - Len(walk.scanned_drives) = Cardinality(Untraversed)

\* ---------------------------------------------------------- load_settings
\* C26: load_settings fills a field missing from the persisted settings
\* from the defaults and keeps the persisted fields; a settings file that
\* is missing, unreadable or does not hold a settings object yields
\* exactly the default settings.
C26_LoadSettings ==
    settings.pc = "loaded" =>
        LET file == settings.file
            st == settings.SETTINGS
        IN IF file.type = "object"
           THEN /\ st.type = "object"
                /\ DOMAIN st.fields = DOMAIN file.fields \cup {quarantine_dir}
                /\ \A k \in DOMAIN file.fields : st.fields[k] = file.fields[k]
                /\ quarantine_dir \notin DOMAIN file.fields
                      => st.fields[quarantine_dir] = DefaultDir
           ELSE st = DefaultSettings

\* ------------------------------------------------------------ scan jobs
\* C28: a job whose adapter calls all end terminates: run() takes at most
\* len(file_list) targets, a worker that has ended has emitted finished,
\* and once that signal is handled the scan buttons are enabled and the
\* stop button is disabled.
C28_JobTerminates ==
    \A j \in Jobs :
        /\ thread[j].i <= Len(thread[j].file_list)
        /\ thread[j].pc \in {"done", "crashed"} =>
              \E k \in 1..Len(thread[j].log) : thread[j].log[k].sig = "finished"
        /\ HistoryOf(j) # {} => scan_btns /\ ~stop_scan_btn

\* C30: the options of a job are those of its start. A job started with
\* the auto-quarantine box unchecked quarantines none of its results,
\* whatever is done to the box while it runs.
C30_OptionsFixedAtStart ==
    /\ stats.quarantined = 0
    /\ qdir = EmptyStore
    /\ disk = Paths

====
